---- MODULE Spec2Model ----
(***************************************************************************)
(* Model of iter-chunks (src/src/lib.rs): the Chunks lending iterator and  *)
(* the Chunk iterators it hands out, over a scripted inner iterator.       *)
(*                                                                         *)
(* Option<T> is a sequence of length 0 (None) or 1 (Some(v)).              *)
(* The inner iterator is a generator in the style of the one used by       *)
(* tests::test_chunk_resumable: its k-th call of next() yields the item k, *)
(* or None when k is one of its "ends"; past its script it returns None    *)
(* forever, or starts its script again when it is cyclic.                  *)
(***************************************************************************)
EXTENDS Integers, Sequences, FiniteSets, TLC

\* Longest script of the inner iterator.
MaxLen == 5
\* Largest chunk size tried.
MaxN == 3
\* Most calls of Chunks::next in one behaviour.
MaxCalls == 7
\* Width of usize in bits.
UsizeBits == 3

UsizeMod == 2 ^ UsizeBits
UsizeMax == UsizeMod - 1

None == << >>
Some(v) == << v >>
IsSome(o) == Len(o) = 1
Unwrap(o) == o[1]
Min(a, b) == IF a <= b THEN a ELSE b

VARIABLES
    inner,       \* Chunks.inner: [len, ends, cyclic, pos]
    n,           \* Chunks.n
    end_flag,    \* Chunks.end_flag
    alive,       \* a Chunk borrows the Chunks (at most one: &'a mut)
    chunk,       \* the live Chunk: [first, n]
    lastOp,      \* the operation that made the last step
    ret,         \* what it returned: an Option (for Chunks::next, of the Chunk's cstart)
    hint,        \* what Chunk::size_hint returned: <<lower, upper>>
    srcHint,     \* what inner.size_hint() returned to it
    calls,       \* calls of Chunks::next so far
    trace,       \* per finished call of Chunks::next: None, or the items its Chunk yielded
    cur,         \* the items the live Chunk has yielded
    cstart,      \* the inner call that produced the live Chunk's first item
    chunkDone,   \* the live Chunk has returned None
    sawEnd,      \* the live Chunk pulled None from the inner iterator
    allDrained,  \* every Chunk dropped so far had returned None
    srcNones,    \* Nones the inner iterator has returned so far
    repulled,    \* the live Chunk was pulled again after it had returned None
    abandoned    \* inner calls within their quota that Chunks dropped early never made

vars == << inner, n, end_flag, alive, chunk, lastOp, ret, hint, srcHint, calls,
           trace, cur, cstart, chunkDone, sawEnd, allDrained, srcNones, repulled, abandoned >>

core == << inner, n, end_flag, alive, chunk >>
obs == << lastOp, ret, hint, srcHint >>
hist == << calls, trace, cur, cstart, chunkDone, sawEnd, allDrained, srcNones,
          repulled, abandoned >>

----------------------------------------------------------------------------
\* The inner iterator.

\* inner.next(): the iterator after the call, and the Option it returns.
InnerNext(it) ==
    LET wrap == it.cyclic /\ it.pos >= it.len /\ it.len > 0
        k == IF wrap THEN 1 ELSE it.pos + 1
    IN  IF k > it.len
        THEN [it |-> it, item |-> None]
        ELSE [it |-> [it EXCEPT !.pos = k],
              item |-> IF k \in it.ends THEN None ELSE Some(k)]

\* The number of items inner would yield before its next None.
RECURSIVE RunFrom(_, _)
RunFrom(it, fuel) ==
    IF fuel = 0 THEN 0
    ELSE LET r == InnerNext(it)
         IN  IF IsSome(r.item) THEN 1 + RunFrom(r.it, fuel - 1) ELSE 0

Run(it) == RunFrom(it, it.len)

\* inner.size_hint(): a lower bound and an optional upper bound, each drawn
\* from the ends of the usize range, the true count and its neighbour 1; the
\* pairs include wrong estimates.
InnerSizeHints(it) ==
    LET vals == {0, 1, Min(Run(it), UsizeMax), UsizeMax}
    IN  vals \X ({None} \cup {Some(u) : u \in vals})

\* The pair is a correct estimate of what inner has left.
HintCorrect(it, h) ==
    /\ h[1] <= Run(it)
    /\ IsSome(h[2]) => Unwrap(h[2]) >= Run(it)

----------------------------------------------------------------------------
\* Chunks and Chunk, as functions of the fields they read and write.

NoChunk == [first |-> None, n |-> 0]

\* Chunks::next that forgets the item it pulled (first: None).
ChunksNextFn_LosesFirst(it, size, flag) ==
    IF flag
    THEN [it |-> it, flag |-> FALSE, some |-> FALSE, chunk |-> NoChunk, pulled |-> FALSE]
    ELSE LET r == InnerNext(it)
         IN  IF IsSome(r.item)
             THEN [it |-> r.it, flag |-> flag, some |-> TRUE,
                   chunk |-> [first |-> None, n |-> size - 1], pulled |-> TRUE]
             ELSE [it |-> r.it, flag |-> flag, some |-> FALSE,
                   chunk |-> NoChunk, pulled |-> TRUE]

\* Chunks::next that gives the Chunk a quota of n, not n - 1.
ChunksNextFn_QuotaN(it, size, flag) ==
    IF flag
    THEN [it |-> it, flag |-> FALSE, some |-> FALSE, chunk |-> NoChunk, pulled |-> FALSE]
    ELSE LET r == InnerNext(it)
         IN  IF IsSome(r.item)
             THEN [it |-> r.it, flag |-> flag, some |-> TRUE,
                   chunk |-> [first |-> r.item, n |-> size], pulled |-> TRUE]
             ELSE [it |-> r.it, flag |-> flag, some |-> FALSE,
                   chunk |-> NoChunk, pulled |-> TRUE]

\* Chunks::next that leaves end_flag set (a permanent sentinel).
ChunksNextFn_StickyFlag(it, size, flag) ==
    IF flag
    THEN [it |-> it, flag |-> TRUE, some |-> FALSE, chunk |-> NoChunk, pulled |-> FALSE]
    ELSE LET r == InnerNext(it)
         IN  IF IsSome(r.item)
             THEN [it |-> r.it, flag |-> flag, some |-> TRUE,
                   chunk |-> [first |-> r.item, n |-> size - 1], pulled |-> TRUE]
             ELSE [it |-> r.it, flag |-> flag, some |-> FALSE,
                   chunk |-> NoChunk, pulled |-> TRUE]

\* Chunks::next that clears end_flag and goes on to pull the source.
ChunksNextFn_FlagThenPull(it, size, flag) ==
    LET r == InnerNext(it)
    IN  IF IsSome(r.item)
        THEN [it |-> r.it, flag |-> FALSE, some |-> TRUE,
              chunk |-> [first |-> r.item, n |-> size - 1], pulled |-> TRUE]
        ELSE [it |-> r.it, flag |-> FALSE, some |-> FALSE,
              chunk |-> NoChunk, pulled |-> TRUE]

\* Chunks::next that raises end_flag when its own pull returns None.
ChunksNextFn_RaisesFlag(it, size, flag) ==
    IF flag
    THEN [it |-> it, flag |-> FALSE, some |-> FALSE, chunk |-> NoChunk, pulled |-> FALSE]
    ELSE LET r == InnerNext(it)
         IN  IF IsSome(r.item)
             THEN [it |-> r.it, flag |-> flag, some |-> TRUE,
                   chunk |-> [first |-> r.item, n |-> size - 1], pulled |-> TRUE]
             ELSE [it |-> r.it, flag |-> TRUE, some |-> FALSE,
                   chunk |-> NoChunk, pulled |-> TRUE]

\* Chunks::next on (inner, n, end_flag): the fields after the call, whether a
\* Chunk is returned, and the returned Chunk.
ChunksNextFn(it, size, flag) ==
    IF flag
    THEN [it |-> it, flag |-> FALSE, some |-> FALSE, chunk |-> NoChunk, pulled |-> FALSE]
    ELSE LET r == InnerNext(it)
         IN  IF IsSome(r.item)
             THEN [it |-> r.it, flag |-> flag, some |-> TRUE,
                   chunk |-> [first |-> r.item, n |-> size - 1], pulled |-> TRUE]
             ELSE [it |-> r.it, flag |-> flag, some |-> FALSE,
                   chunk |-> NoChunk, pulled |-> TRUE]

\* The None arm that leaves the parent's end_flag alone.
ChunkOnInnerNone_NoFlag(c, flag) == [chunk |-> [c EXCEPT !.n = 0], flag |-> flag]

\* The None arm that leaves the Chunk's quota alone.
ChunkOnInnerNone_KeepsQuota(c, flag) == [chunk |-> c, flag |-> TRUE]

\* The None arm of the inner match in Chunk::next: the Chunk and the parent's
\* end_flag after inner returned None.
ChunkOnInnerNone(c, flag) == [chunk |-> [c EXCEPT !.n = 0], flag |-> TRUE]

\* Chunk::next that never spends its quota.
ChunkNextFn_NoDecrement(c, it, flag) ==
    IF IsSome(c.first)
    THEN [chunk |-> [c EXCEPT !.first = None], it |-> it, flag |-> flag,
          item |-> c.first, pulled |-> FALSE]
    ELSE IF c.n > 0
    THEN LET r == InnerNext(it)
         IN  IF IsSome(r.item)
             THEN [chunk |-> c, it |-> r.it, flag |-> flag,
                   item |-> r.item, pulled |-> TRUE]
             ELSE LET e == ChunkOnInnerNone(c, flag)
                  IN  [chunk |-> e.chunk, it |-> r.it, flag |-> e.flag,
                       item |-> None, pulled |-> TRUE]
    ELSE [chunk |-> c, it |-> it, flag |-> flag, item |-> None, pulled |-> FALSE]

\* Chunk::next that pulls the source also when its quota is 0.
ChunkNextFn_PullsAtZero(c, it, flag) ==
    IF IsSome(c.first)
    THEN [chunk |-> [c EXCEPT !.first = None], it |-> it, flag |-> flag,
          item |-> c.first, pulled |-> FALSE]
    ELSE LET c1 == [c EXCEPT !.n = IF c.n > 0 THEN c.n - 1 ELSE 0]
             r == InnerNext(it)
         IN  IF IsSome(r.item)
             THEN [chunk |-> c1, it |-> r.it, flag |-> flag,
                   item |-> r.item, pulled |-> TRUE]
             ELSE LET e == ChunkOnInnerNone(c1, flag)
                  IN  [chunk |-> e.chunk, it |-> r.it, flag |-> e.flag,
                       item |-> None, pulled |-> TRUE]

\* Chunk::next on (chunk, parent.inner, parent.end_flag).
ChunkNextFn(c, it, flag) ==
    IF IsSome(c.first)
    THEN [chunk |-> [c EXCEPT !.first = None], it |-> it, flag |-> flag,
          item |-> c.first, pulled |-> FALSE]
    ELSE IF c.n > 0
    THEN LET c1 == [c EXCEPT !.n = c.n - 1]
             r == InnerNext(it)
         IN  IF IsSome(r.item)
             THEN [chunk |-> c1, it |-> r.it, flag |-> flag,
                   item |-> r.item, pulled |-> TRUE]
             ELSE LET e == ChunkOnInnerNone(c1, flag)
                  IN  [chunk |-> e.chunk, it |-> r.it, flag |-> e.flag,
                       item |-> None, pulled |-> TRUE]
    ELSE [chunk |-> c, it |-> it, flag |-> flag, item |-> None, pulled |-> FALSE]

\* usize addition (wrapping, as in a release build).
UsizeAdd(a, b) == (a + b) % UsizeMod

\* Chunk::size_hint that does not cap the source's bounds by the quota.
ChunkSizeHintFn_NoMin(c, h) ==
    LET has_first == IF IsSome(c.first) THEN 1 ELSE 0
        lower == UsizeAdd(h[1], has_first)
        upper == IF IsSome(h[2]) THEN Some(UsizeAdd(Unwrap(h[2]), has_first)) ELSE None
    IN  << lower, upper >>

\* Chunk::size_hint that counts the first item whether or not it was taken.
ChunkSizeHintFn_AlwaysFirst(c, h) ==
    LET lower == UsizeAdd(Min(h[1], c.n), 1)
        upper == IF IsSome(h[2]) THEN Some(UsizeAdd(Min(Unwrap(h[2]), c.n), 1)) ELSE None
    IN  << lower, upper >>

\* Chunk::size_hint on the Chunk and the pair inner.size_hint() returned.
ChunkSizeHintFn(c, h) ==
    LET has_first == IF IsSome(c.first) THEN 1 ELSE 0
        lower == UsizeAdd(Min(h[1], c.n), has_first)
        upper == IF IsSome(h[2])
                 THEN Some(UsizeAdd(Min(Unwrap(h[2]), c.n), has_first))
                 ELSE None
    IN  << lower, upper >>

----------------------------------------------------------------------------
\* The states after IterChunks::chunks(n) on an inner iterator.

Scripts(cycs) ==
    { [len |-> l, ends |-> e, cyclic |-> c, pos |-> 0] :
        l \in 0 .. MaxLen, e \in SUBSET (1 .. MaxLen), c \in cycs }

ValidScript(it) == it.ends \subseteq 1 .. it.len

\* The chunk sizes tried: the small ones and usize::MAX.
ChunkSizes == (1 .. MaxN) \cup {UsizeMax}

NoHint == << 0, None >>

\* The entries of trace.
NoneSeen == [some |-> FALSE, items |-> << >>]
ChunkSeen(items) == [some |-> TRUE, items |-> items]

\* IterChunks::chunks(n) with n /= 0, on an iterator not yet pulled.
InitWith(cycs) ==
    /\ inner \in { it \in Scripts(cycs) : ValidScript(it) }
    /\ n \in ChunkSizes
    /\ end_flag = FALSE
    /\ alive = FALSE
    /\ chunk = NoChunk
    /\ lastOp = "chunks"
    /\ ret = None
    /\ hint = NoHint
    /\ srcHint = NoHint
    /\ calls = 0
    /\ trace = << >>
    /\ cur = << >>
    /\ cstart = 0
    /\ chunkDone = FALSE
    /\ sawEnd = FALSE
    /\ allDrained = TRUE
    /\ srcNones = 0
    /\ repulled = FALSE
    /\ abandoned = {}

Init == InitWith({FALSE})

----------------------------------------------------------------------------
\* Operations. Each is the call itself (on the fields of Chunks and Chunk)
\* together with the bookkeeping of what the caller has seen.

\* chunks.next(): needs &mut Chunks, so no Chunk is alive.
ChunksNextCall ==
    /\ ~alive
    /\ LET r == ChunksNextFn(inner, n, end_flag)
       IN  /\ inner' = r.it
           /\ end_flag' = r.flag
           /\ alive' = r.some
           /\ chunk' = r.chunk
           /\ ret' = IF r.some THEN Some(r.it.pos) ELSE None
    /\ lastOp' = "Chunks::next"
    /\ hint' = NoHint
    /\ srcHint' = NoHint
    /\ UNCHANGED n

ChunksNextSeen ==
    /\ calls < MaxCalls
    /\ LET r == ChunksNextFn(inner, n, end_flag)
       IN  /\ trace' = IF r.some THEN trace ELSE Append(trace, NoneSeen)
           /\ cstart' = IF r.some THEN r.it.pos ELSE cstart
           /\ srcNones' = srcNones + (IF r.pulled /\ ~r.some THEN 1 ELSE 0)
    /\ calls' = calls + 1
    /\ cur' = << >>
    /\ chunkDone' = FALSE
    /\ sawEnd' = FALSE
    /\ repulled' = FALSE
    /\ UNCHANGED << allDrained, abandoned >>

ChunksNext == ChunksNextCall /\ ChunksNextSeen

\* chunk.next() on the live Chunk.
ChunkNextCall ==
    /\ alive
    /\ LET r == ChunkNextFn(chunk, inner, end_flag)
       IN  /\ chunk' = r.chunk
           /\ inner' = r.it
           /\ end_flag' = r.flag
           /\ ret' = r.item
    /\ lastOp' = "Chunk::next"
    /\ hint' = NoHint
    /\ srcHint' = NoHint
    /\ UNCHANGED << n, alive >>

ChunkNextSeen ==
    /\ LET r == ChunkNextFn(chunk, inner, end_flag)
           gotNone == r.pulled /\ ~IsSome(r.item)
       IN  /\ cur' = IF IsSome(r.item) THEN Append(cur, Unwrap(r.item)) ELSE cur
           /\ chunkDone' = (chunkDone \/ ~IsSome(r.item))
           /\ sawEnd' = (sawEnd \/ gotNone)
           /\ srcNones' = srcNones + (IF gotNone THEN 1 ELSE 0)
    /\ repulled' = (repulled \/ chunkDone)
    /\ UNCHANGED << calls, trace, cstart, allDrained, abandoned >>

ChunkNext == ChunkNextCall /\ ChunkNextSeen

\* chunk.size_hint() on the live Chunk; inner.size_hint() answers h.
ChunkSizeHint ==
    /\ alive
    /\ \E h \in InnerSizeHints(inner) :
          /\ srcHint' = h
          /\ hint' = ChunkSizeHintFn(chunk, h)
    /\ lastOp' = "Chunk::size_hint"
    /\ ret' = None
    /\ UNCHANGED << core, hist >>

\* The live Chunk goes out of scope. Chunk has no Drop impl: the borrow ends
\* and no field of Chunks changes.
ChunkDropCall ==
    /\ alive
    /\ alive' = FALSE
    /\ chunk' = NoChunk
    /\ lastOp' = "drop"
    /\ ret' = None
    /\ hint' = NoHint
    /\ srcHint' = NoHint
    /\ UNCHANGED << inner, n, end_flag >>

ChunkDropSeen ==
    /\ trace' = Append(trace, ChunkSeen(cur))
    /\ allDrained' = (allDrained /\ chunkDone)
    /\ abandoned' = abandoned \cup
          (IF sawEnd THEN {}
           ELSE (cstart + (IF cur = << >> THEN 1 ELSE Len(cur))) .. (cstart + n - 1))
    /\ UNCHANGED << calls, cur, cstart, chunkDone, sawEnd, srcNones, repulled >>

ChunkDrop == ChunkDropCall /\ ChunkDropSeen

Next == ChunksNext \/ ChunkNext \/ ChunkSizeHint \/ ChunkDrop

Spec == Init /\ [][Next]_vars

----------------------------------------------------------------------------
\* What the caller has seen, read off the bookkeeping.

RECURSIVE Flatten(_)
Flatten(ss) == IF ss = << >> THEN << >> ELSE Head(ss).items \o Flatten(Tail(ss))

\* The items delivered so far, in the order delivered.
Delivered == Flatten(trace) \o (IF alive THEN cur ELSE << >>)

\* The number of Nones Chunks::next has returned.
RetNones == Cardinality({ i \in DOMAIN trace : ~trace[i].some })

\* The inner iterator never yields an item after a None.
NonResumable(it) ==
    /\ ~it.cyclic
    /\ \A e \in it.ends : e .. it.len \subseteq it.ends

\* The items a fresh inner iterator yields before its first None.
SourceItems(it) == [ i \in 1 .. Run([it EXCEPT !.pos = 0]) |-> i ]

\* Chunks::next has just returned its first None, and every Chunk it had
\* returned was pulled until it returned None.
DrainedToFirstNone ==
    /\ lastOp = "Chunks::next"
    /\ ret = None
    /\ RetNones = 1
    /\ allDrained

CeilDiv(a, b) == (a + b - 1) \div b

----------------------------------------------------------------------------
\* C1: on a finite, non-resumable source, when Chunks::next is called until
\* it returns None and every Chunk is drained, the items of the chunks in
\* the order produced are exactly the source's items.
C1_ConcatIsSource ==
    (NonResumable(inner) /\ DrainedToFirstNone)
        => Flatten(trace) = SourceItems(inner)

\* Five items in chunks of two: [1,2], [3,4], [5], None.
C1_Witness ==
    /\ NonResumable(inner) /\ DrainedToFirstNone
    /\ n = 2
    /\ trace = << ChunkSeen(<< 1, 2 >>), ChunkSeen(<< 3, 4 >>), ChunkSeen(<< 5 >>), NoneSeen >>

\* C2: on a finite, non-resumable source of L items, with every Chunk
\* drained, Chunks::next returns exactly ceil(L / N) Chunks before its first
\* None.
C2_ChunkCount ==
    (NonResumable(inner) /\ DrainedToFirstNone)
        => Len(trace) - 1 = CeilDiv(Len(SourceItems(inner)), n)

\* N divides L: two full chunks and no trailing empty one.
C2_Witness ==
    /\ NonResumable(inner) /\ DrainedToFirstNone
    /\ n = 2
    /\ Len(SourceItems(inner)) = 4
    /\ Len(trace) = 3

Range(f) == { f[i] : i \in DOMAIN f }

\* C3: the items a Chunk dropped early had not yet pulled from the source,
\* up to its size N, are skipped for good: no later Chunk yields them, so
\* the next Chunk starts at the following chunk boundary. (Stated for
\* sources that yield every item of their script, as in the example
\* [1,2,3,4,5] with N = 2.)
C3_DroppedItemsSkipped ==
    inner.ends = {} =>
        /\ abandoned \cap Range(Delivered) = {}
        /\ (alive /\ IsSome(chunk.first)) => Unwrap(chunk.first) \notin abandoned

\* C4: the Nones the inner iterator has returned are as many as the Nones
\* Chunks::next has returned, plus one while end_flag is set.
C4_OneNonePerExhaustion ==
    srcNones = RetNones + (IF end_flag THEN 1 ELSE 0)

\* A resumable source ends a second time inside a Chunk, after the first
\* end has been reported.
C4_Witness ==
    /\ end_flag
    /\ RetNones = 1
    /\ srcNones = 2
    /\ Run(inner) > 0

\* A run of items cut into chunks of size items, the last one shorter.
RECURSIVE ChunksOf(_, _)
ChunksOf(run, size) ==
    IF run = << >> THEN << >>
    ELSE LET k == Min(size, Len(run))
         IN  << ChunkSeen(SubSeq(run, 1, k)) >>
                 \o ChunksOf(SubSeq(run, k + 1, Len(run)), size)

\* What a draining caller is to see of the script from call k on, run being
\* the items of the current run so far: each run in chunks, then one None.
RECURSIVE ExpectedFrom(_, _, _, _)
ExpectedFrom(it, k, run, size) ==
    IF k > it.len
    THEN IF run = << >> THEN << >> ELSE ChunksOf(run, size) \o << NoneSeen >>
    ELSE IF k \in it.ends
    THEN ChunksOf(run, size) \o << NoneSeen >> \o ExpectedFrom(it, k + 1, << >>, size)
    ELSE ExpectedFrom(it, k + 1, Append(run, k), size)

Expected(it, size) == ExpectedFrom(it, 1, << >>, size)

\* Every run of the script has at least one item.
RunsNonEmpty(it) ==
    /\ 1 \notin it.ends
    /\ \A e \in it.ends : e + 1 \notin it.ends

\* C5: on a resumable source whose runs of r >= 1 items each end with one
\* None, a draining caller sees, run after run, ceil(r / N) chunks that
\* concatenate to the run and then exactly one None.
C5_RunsThenOneNone ==
    (~alive /\ allDrained /\ RunsNonEmpty(inner)) =>
        LET e == Expected(inner, n)
            m == Min(Len(trace), Len(e))
        IN  SubSeq(trace, 1, m) = SubSeq(e, 1, m)

\* Items 1,2, an end, item 4, the end: [1,2], None, [4], None.
C5_Witness ==
    /\ ~alive /\ allDrained /\ RunsNonEmpty(inner)
    /\ inner.ends = {3}
    /\ n = 3
    /\ trace = << ChunkSeen(<< 1, 2 >>), NoneSeen, ChunkSeen(<< 4 >>), NoneSeen >>

----------------------------------------------------------------------------
\* The same calls with nothing recorded and no bound on the number of calls,
\* over scripts that may be cyclic; the caller keeps calling Chunks::next
\* (a Chunk it holds goes out of scope, and the loop calls next again).

LiveInit == InitWith(BOOLEAN)

LiveChunksNext == ChunksNextCall /\ UNCHANGED hist
LiveChunkNext == ChunkNextCall /\ UNCHANGED hist
LiveChunkDrop == ChunkDropCall /\ UNCHANGED hist

LiveNext == LiveChunksNext \/ LiveChunkNext \/ LiveChunkDrop

LiveSpec ==
    /\ LiveInit
    /\ [][LiveNext]_vars
    /\ WF_vars(LiveChunksNext)
    /\ WF_vars(LiveChunkDrop)

\* The script holds an item and is repeated for ever.
YieldsForever(it) == it.cyclic /\ \E k \in 1 .. it.len : k \notin it.ends

\* C6: Chunks::next called with end_flag clear on a source that yields an
\* item returns a Chunk; a call that returns None right after a call that
\* returned None has itself pulled None from the source; and on a source
\* that keeps yielding items, Chunks are returned again and again.
C6_NeverStuck ==
    /\ [][ (lastOp' = "Chunks::next" /\ ~end_flag /\ IsSome(InnerNext(inner).item))
             => (alive' /\ IsSome(ret')) ]_vars
    /\ [][ (lastOp = "Chunks::next" /\ ret = None /\ lastOp' = "Chunks::next" /\ ret' = None)
             => (~end_flag /\ InnerNext(inner).item = None) ]_vars
    /\ (YieldsForever(inner) => []<>(lastOp = "Chunks::next" /\ IsSome(ret)))

\* A Chunk whose first item is the one the source yields right after an end.
C6_Witness ==
    /\ YieldsForever(inner)
    /\ lastOp = "Chunks::next"
    /\ IsSome(ret)
    /\ inner.pos - 1 \in inner.ends

----------------------------------------------------------------------------
\* C7: once a Chunk has returned None, every later call of its next returns
\* None, also when the source is resumable and the Chunk had quota left.
C7_NoneIsFinal ==
    [][ (alive /\ chunkDone /\ lastOp' = "Chunk::next") => ret' = None ]_vars

\* A Chunk of size 3 that ran dry after one item, with quota to spare, was
\* pulled again while the source had items again, and returned None.
C7_Witness ==
    /\ alive /\ chunkDone /\ sawEnd /\ repulled
    /\ lastOp = "Chunk::next" /\ ret = None
    /\ n = 3 /\ Len(cur) = 1
    /\ Run(inner) > 0

\* The item of the script's k-th call is k; a call past the script, or an
\* end of it, is a None.
IsEnd(it, k) == k > it.len \/ k \in it.ends

\* C8: a Chunk yields at most N items; one that has returned None yielded
\* exactly N items, or, if the source ran dry during it, exactly the items
\* the source gave it before that None; and no Chunk is empty.
C8_ChunkLength ==
    alive =>
        /\ Len(cur) <= n
        /\ cur = << >> => (chunkDone \/ IsSome(chunk.first))
        /\ chunkDone =>
              /\ Len(cur) >= 1
              /\ cur = [ i \in 1 .. Len(cur) |-> cstart + i - 1 ]
              /\ IF sawEnd THEN IsEnd(inner, cstart + Len(cur)) ELSE Len(cur) = n

\* A Chunk of size 3 cut short after two items by an end of a resumable
\* source.
C8_Witness ==
    /\ alive /\ chunkDone /\ sawEnd
    /\ n = 3 /\ cur = << 1, 2 >>
    /\ Run(inner) > 0

----------------------------------------------------------------------------
\* The number of items a Chunk yields when next is called on it until None.
RECURSIVE DrainFrom(_, _, _, _)
DrainFrom(c, it, flag, fuel) ==
    IF fuel = 0 THEN 0
    ELSE LET r == ChunkNextFn(c, it, flag)
         IN  IF IsSome(r.item)
             THEN 1 + DrainFrom(r.chunk, r.it, r.flag, fuel - 1)
             ELSE 0

DrainCount == DrainFrom(chunk, inner, end_flag, UsizeMod)

\* C9: when the source's size_hint is correct, the Chunk's lower bound is at
\* most, and its upper bound (if any) at least, the number of items the
\* Chunk still yields, at any point of the Chunk's life.
C9_SizeHintSound ==
    (lastOp = "Chunk::size_hint" /\ HintCorrect(inner, srcHint)) =>
        /\ hint[1] <= DrainCount
        /\ IsSome(hint[2]) => Unwrap(hint[2]) >= DrainCount

\* A fresh Chunk of size 3 over a source with exactly four items left
\* reports (3, Some(3)).
C9_Witness ==
    /\ lastOp = "Chunk::size_hint" /\ HintCorrect(inner, srcHint)
    /\ n = 3 /\ IsSome(chunk.first)
    /\ srcHint = << 4, Some(4) >>
    /\ hint = << 3, Some(3) >>
    /\ DrainCount = 3

\* C10: Chunk::size_hint returns (min(src_lower, q) + has_first,
\* src_upper.map(min(_, q) + has_first)) in unbounded arithmetic, and changes
\* no field of the Chunk or of Chunks (it pulls nothing).
C10_SizeHintValue ==
    [][ lastOp' = "Chunk::size_hint" =>
          LET q == chunk.n
              has_first == IF IsSome(chunk.first) THEN 1 ELSE 0
          IN  /\ hint'[1] = Min(srcHint'[1], q) + has_first
              /\ hint'[2] = IF IsSome(srcHint'[2])
                            THEN Some(Min(Unwrap(srcHint'[2]), q) + has_first)
                            ELSE None
              /\ UNCHANGED << core, srcNones >> ]_vars

\* The largest case: a fresh Chunk of size usize::MAX over a source that
\* reports usize::MAX.
C10_Witness ==
    /\ lastOp = "Chunk::size_hint"
    /\ n = UsizeMax /\ IsSome(chunk.first) /\ chunk.n = UsizeMax - 1
    /\ srcHint = << UsizeMax, Some(UsizeMax) >>
    /\ hint = << UsizeMax, Some(UsizeMax) >>

----------------------------------------------------------------------------
\* Construction. Before the call of chunks(n), n holds the argument and
\* end_flag is not yet initialised; lastOp = "start".

\* The arguments tried: 0 and the chunk sizes.
ChunkArgs == {0} \cup ChunkSizes

\* IterChunks::chunks that lacks the assert_ne!.
ChunksFn_NoAssert(it, size) ==
    [panic |-> FALSE, inner |-> it, n |-> size, end_flag |-> FALSE]

\* IterChunks::chunks(self, n): a panic, or the fields of the new Chunks.
ChunksFn(it, size) ==
    IF size = 0
    THEN [panic |-> TRUE, inner |-> it, n |-> size, end_flag |-> FALSE]
    ELSE [panic |-> FALSE, inner |-> it, n |-> size, end_flag |-> FALSE]

CtorInit ==
    /\ inner \in { it \in Scripts({FALSE}) : ValidScript(it) }
    /\ n \in ChunkArgs
    /\ end_flag \in BOOLEAN
    /\ alive = FALSE
    /\ chunk = NoChunk
    /\ lastOp = "start"
    /\ ret = None
    /\ hint = NoHint
    /\ srcHint = NoHint
    /\ calls = 0
    /\ trace = << >>
    /\ cur = << >>
    /\ cstart = 0
    /\ chunkDone = FALSE
    /\ sawEnd = FALSE
    /\ allDrained = TRUE
    /\ srcNones = 0
    /\ repulled = FALSE
    /\ abandoned = {}

\* inner.chunks(n).
CallChunks ==
    /\ lastOp = "start"
    /\ LET r == ChunksFn(inner, n)
       IN  IF r.panic
           THEN /\ lastOp' = "panic"
                /\ UNCHANGED << inner, n, end_flag >>
           ELSE /\ lastOp' = "chunks"
                /\ inner' = r.inner
                /\ n' = r.n
                /\ end_flag' = r.end_flag
    /\ UNCHANGED << alive, chunk, ret, hint, srcHint, hist >>

\* A Chunks exists: chunks(n) has returned one.
Constructed == lastOp \notin {"start", "panic"}

CtorNext == CallChunks \/ (Constructed /\ Next)

CtorSpec == CtorInit /\ [][CtorNext]_vars

\* C11: chunks(n) with n = 0 panics, pulls nothing and leaves no Chunks to
\* call; with n >= 1 it returns a Chunks with end_flag false that has pulled
\* nothing.
C11_ZeroPanics ==
    /\ n = 0 => (lastOp \in {"start", "panic"} /\ inner.pos = 0 /\ calls = 0 /\ ~alive)
    /\ lastOp = "panic" => n = 0
    /\ lastOp = "chunks" => (n >= 1 /\ ~end_flag /\ inner.pos = 0 /\ srcNones = 0)

\* chunks(0) has panicked on a source that has items.
C11_Witness ==
    /\ lastOp = "panic"
    /\ n = 0
    /\ Run(inner) > 0

----------------------------------------------------------------------------
\* C12: Chunks::next called with end_flag set clears it and returns None
\* without pulling the source, so the Chunk the following call returns
\* starts with the item the source yields next.
C12_FlagCallPullsNothing ==
    /\ [][ (lastOp' = "Chunks::next" /\ end_flag)
             => /\ ~end_flag' /\ ret' = None /\ ~alive'
                /\ inner' = inner /\ srcNones' = srcNones ]_vars
    /\ [][ (lastOp = "Chunks::next" /\ ret = None /\ lastOp' = "Chunks::next" /\ alive')
             => chunk'.first = InnerNext(inner).item ]_vars

\* Items 1,2 and an end drained by a Chunk of size 3, the None that clears
\* end_flag, and then the Chunk that starts with item 4.
C12_Witness ==
    /\ allDrained
    /\ inner.ends = {3} /\ n = 3
    /\ trace = << ChunkSeen(<< 1, 2 >>), NoneSeen >>
    /\ lastOp = "Chunks::next" /\ alive
    /\ chunk.first = Some(4)

\* C13: Chunk::next with first empty and quota q > 0 pulls the source once;
\* on an item it returns it, leaves quota q - 1 and end_flag as it was; on
\* None it returns None, leaves quota 0 and sets end_flag.
C13_PullWithQuota ==
    [][ (alive /\ lastOp' = "Chunk::next" /\ ~IsSome(chunk.first) /\ chunk.n > 0)
          => LET r == InnerNext(inner)
             IN  /\ inner' = r.it
                 /\ ret' = r.item
                 /\ IF IsSome(r.item)
                    THEN /\ chunk'.n = chunk.n - 1
                         /\ end_flag' = end_flag
                         /\ srcNones' = srcNones
                    ELSE /\ chunk'.n = 0
                         /\ end_flag'
                         /\ srcNones' = srcNones + 1 ]_vars

\* A Chunk of size 3 with quota 2 has just pulled None: quota 0, not 1.
C13_Witness ==
    /\ alive /\ lastOp = "Chunk::next" /\ ret = None
    /\ n = 3 /\ Len(cur) = 1 /\ sawEnd /\ ~repulled
    /\ chunk.n = 0 /\ end_flag

\* C14: Chunk::next that takes first, or that finds first empty and quota 0,
\* leaves the source and end_flag alone; so a Chunk pulls the source at
\* most N - 1 times, never past its N-th item, and never when N = 1.
C14_NoLookAhead ==
    /\ [][ (alive /\ lastOp' = "Chunk::next" /\ (IsSome(chunk.first) \/ chunk.n = 0))
             => /\ inner' = inner
                /\ end_flag' = end_flag
                /\ srcNones' = srcNones ]_vars
    /\ [](alive => /\ inner.pos - cstart + chunk.n <= n - 1
                   /\ inner.pos <= cstart + n - 1
                   /\ n = 1 => (inner.pos = cstart /\ ~sawEnd /\ ~end_flag))

\* A Chunk of size 1 pulled past its only item, twice, while the source has
\* more: the source is where Chunks::next left it.
C14_Witness ==
    /\ alive /\ n = 1 /\ cur = << 1 >>
    /\ chunkDone /\ repulled
    /\ inner.pos = cstart
    /\ Run(inner) > 0

\* C15: end_flag is set exactly when the last Chunk returned pulled None
\* from the source and Chunks::next has not been called since; it is false
\* after construction and after every Chunks::next, only Chunk::next raises
\* it, and never when N = 1.
C15_FlagMeaning ==
    /\ [](end_flag <=> sawEnd)
    /\ [](lastOp \in {"chunks", "Chunks::next"} => ~end_flag)
    /\ [](n = 1 => ~end_flag)
    /\ [][ (~end_flag /\ end_flag') =>
             (alive /\ lastOp' = "Chunk::next" /\ chunk.n > 0 /\ ret' = None) ]_vars

\* The Chunk that ran dry has gone out of scope and end_flag still waits
\* for the next call of Chunks::next.
C15_Witness ==
    /\ end_flag /\ sawEnd
    /\ ~alive /\ lastOp = "drop"
    /\ Run(inner) > 0

----------------------------------------------------------------------------
\* Chunks::for_each(f) on a fresh Chunks. One step is one evaluation of
\* `while let Some(item) = self.next()`: it enters f(item), or leaves the
\* loop and returns. Inside f the visitor owns the Chunk: it calls next and
\* size_hint on it as it likes, and the Chunk is dropped when f returns.

Returned == lastOp = "for_each: return"

ForEachStep ==
    /\ ~alive
    /\ ~Returned
    /\ LET r == ChunksNextFn(inner, n, end_flag)
       IN  /\ inner' = r.it
           /\ end_flag' = r.flag
           /\ alive' = r.some
           /\ chunk' = r.chunk
           /\ ret' = IF r.some THEN Some(r.it.pos) ELSE None
           /\ lastOp' = IF r.some THEN "for_each: f(item)" ELSE "for_each: return"
    /\ hint' = NoHint
    /\ srcHint' = NoHint
    /\ UNCHANGED n
    /\ ChunksNextSeen

ForEachNext == ForEachStep \/ ChunkNext \/ ChunkSizeHint \/ ChunkDrop

\* The loop goes on while it can, and the visitor returns.
ForEachSpec ==
    /\ Init
    /\ [][ForEachNext]_vars
    /\ WF_vars(ForEachStep)
    /\ WF_vars(ChunkDrop)

\* The visits of f that have returned, and the ones begun.
VisitsDone == Cardinality({ i \in DOMAIN trace : trace[i].some })
VisitsBegun == VisitsDone + (IF alive THEN 1 ELSE 0)

\* The call of the script that returns its first None.
FirstEnd(it) == Run([it EXCEPT !.pos = 0]) + 1

StrictlyIncreasing(q) == \A i, j \in DOMAIN q : i < j => q[i] < q[j]

\* C16: for_each calls the visitor once for each Chunk that Chunks::next
\* returns, in the order returned, and returns at the first None; so on a
\* resumable source it stops at the first end, and it returns with end_flag
\* false.
C16_ForEachVisits ==
    /\ VisitsBegun = calls - RetNones
    /\ StrictlyIncreasing(Delivered)
    /\ ~Returned => RetNones = 0
    /\ Returned =>
          /\ RetNones = 1 /\ ~trace[Len(trace)].some
          /\ ~alive /\ ~end_flag
          /\ srcNones = 1
          /\ inner.pos = Min(FirstEnd(inner), inner.len)
          /\ \A k \in Range(Delivered) : k < FirstEnd(inner)

\* On items 1,2, an end, item 4: f saw one Chunk with 1,2 and for_each
\* returned with item 4 still in the source.
C16_Witness ==
    /\ Returned
    /\ inner.ends = {3} /\ inner.len = 4 /\ n = 2
    /\ trace = << ChunkSeen(<< 1, 2 >>), NoneSeen >>

\* C17: on a finite, non-resumable source of L items for_each returns,
\* whatever the visitor pulls from each Chunk, after at least ceil(L / N)
\* and at most L visits.
C17_ForEachTerminates ==
    /\ NonResumable(inner) => <>Returned
    /\ [](( Returned /\ NonResumable(inner)) =>
            LET L == Len(SourceItems(inner))
            IN  /\ CeilDiv(L, n) <= VisitsDone
                /\ VisitsDone <= L)

\* Five items, chunks of 3, a visitor that pulled nothing: five visits.
C17_Witness ==
    /\ Returned /\ NonResumable(inner)
    /\ Len(SourceItems(inner)) = 5 /\ n = 3
    /\ VisitsDone = 5
    /\ Delivered = << >>

----------------------------------------------------------------------------
\* The items the source has yielded: the calls made so far that are no ends.
Pulled == { k \in 1 .. inner.pos : k \notin inner.ends }

\* The item Chunks::next pulled for the live Chunk, while not yet taken.
Pending == IF alive /\ IsSome(chunk.first) THEN { Unwrap(chunk.first) } ELSE {}

\* The items the source has yielded that the caller will never get.
Lost == (Pulled \ Range(Delivered)) \ Pending

\* C18: under any interleaving of Chunks::next, Chunk::next and drops, the
\* items delivered are items of the source in source order, none twice; an
\* item is lost only as the untaken first item of a Chunk that is dropped;
\* and a new Chunk begins with the item at the source's cursor.
C18_OnlyFirstsLost ==
    /\ [](StrictlyIncreasing(Delivered) /\ Range(Delivered) \subseteq Pulled)
    /\ [](calls = 0 => Lost = {})
    /\ [][ \/ UNCHANGED << core, hist >>
            \/ Lost' = Lost \cup (IF alive /\ ~alive' THEN Pending ELSE {}) ]_vars
    /\ [][ (lastOp' = "Chunks::next" /\ alive')
             => chunk'.first = InnerNext(inner).item ]_vars

\* Of five items in chunks of 2, the Chunk of item 1 was dropped untouched
\* and the next gave 2,3: only item 1 is lost.
C18_Witness ==
    /\ inner.ends = {} /\ n = 2
    /\ trace = << ChunkSeen(<< >>), ChunkSeen(<< 2, 3 >>) >>
    /\ Lost = {1}
    /\ ~alive

\* C19: a Chunk's quota is between 0 and N - 1 with N >= 1, so N - 1 and the
\* decrement of the quota never go below 0, and min(x, quota) + has_first
\* in size_hint is at most N and within usize.
C19_QuotaRange ==
    Constructed =>
        /\ n >= 1 /\ n <= UsizeMax
        /\ 0 <= chunk.n /\ chunk.n <= n - 1
        /\ lastOp = "Chunk::size_hint" =>
              LET has_first == IF IsSome(chunk.first) THEN 1 ELSE 0
                  lower == Min(srcHint[1], chunk.n) + has_first
                  upper == IF IsSome(srcHint[2])
                           THEN Min(Unwrap(srcHint[2]), chunk.n) + has_first
                           ELSE 0
              IN  /\ lower <= n /\ upper <= n
                  /\ hint[1] = lower
                  /\ IsSome(hint[2]) => Unwrap(hint[2]) = upper

\* A Chunk of size usize::MAX whose source claims usize::MAX items, asked
\* before and after its first item was taken: here after, with the quota
\* still usize::MAX - 1.
C19_Witness ==
    /\ Constructed /\ lastOp = "Chunk::size_hint"
    /\ n = UsizeMax /\ ~IsSome(chunk.first) /\ chunk.n = UsizeMax - 1
    /\ srcHint = << UsizeMax, Some(UsizeMax) >>
    /\ hint = << UsizeMax - 1, Some(UsizeMax - 1) >>

====
